---- MODULE Spec2Model ----
(***************************************************************************)
(* A model of the coroutine library github.com/Freezerburn/coroutine:      *)
(* one coroutine (Embeddable) started by StartFuncName/StartName, its      *)
(* goroutine running an arbitrary body that calls Recv, RecvFor,           *)
(* RecvImmediate, Pause and Stop, the deferred cleanup of the Start        *)
(* functions, external goroutines calling Ref.Send and Ref.Stop, and the   *)
(* runtime goroutine that expires the two time.Timers. A second            *)
(* specification, StartSpec, has goroutines that call the Start functions  *)
(* at the same time and take their ids from nextId.                        *)
(*                                                                         *)
(* Every access to shared memory (running, the receiver channel, the       *)
(* timers and their channels) is one atomic step, and so is every critical *)
(* section of mailboxLock, so every interleaving of the goroutines at the  *)
(* places where the code touches shared state is a behaviour of the model. *)
(* running is read and written without a lock; each of its reads and       *)
(* writes is a step of its own and every such access is separated from the *)
(* goroutine's next shared access by a lock or channel operation, so a     *)
(* read yields the value last written in the interleaving.                 *)
(***************************************************************************)
EXTENDS Integers, Sequences, FiniteSets, TLC

\* Number of Send calls made over a run (the messages are 1..MaxMsgs, named
\* in the order in which they are appended to the mailbox).
MaxMsgs == 2

\* Number of calls of Ref.Send and Ref.Stop that can be in progress at once.
MaxProcs == 2

\* Number of calls of Embeddable methods the body makes over a run.
MaxCalls == 2

\* Number of goroutines that call StartFuncName or StartName.
MaxStarts == 3

\* The callers of the Start functions; each starts one coroutine.
Starters == 1..MaxStarts

\* Names given to coroutines.
Names == {"a", "b"}

\* The two timers of an Embeddable (embed.go:21,23).
Timers == {"wait", "receive"}

\* Methods of Embeddable the body can call. "RecvFor0" is RecvFor with a
\* duration <= 0, "RecvFor" is RecvFor with a duration > 0.
OpNames == {"Recv", "RecvFor", "RecvFor0", "RecvImmediate", "Pause", "Stop"}

\* Places inside Ref.Send and Ref.Stop at which an external goroutine can be.
ExtPcs == {"send_lock", "send_notify", "xstop_write", "xstop_pulse"}

VARIABLES
    running,      \* Embeddable.running
    mailbox,      \* Embeddable.mailbox
    mailboxLock,  \* Embeddable.mailboxLock: "free" or its holder
    closed,       \* whether close(receiver) has been executed
    timer,        \* waitTimer and receiveTimer with their channels
    pc,           \* position of the coroutine's goroutine
    curOp,        \* the Embeddable method the body is in
    wokenBy,      \* what ended the wait of the method the body is in
    failure,      \* value the goroutine is panicking with
    ncalls,       \* number of method calls the body has made
    ext,          \* number of external goroutines at each place of ExtPcs
    nsent,        \* number of Send calls made so far
    delivered,    \* history: messages in the order returned to the body
    stopPc,       \* history: where the coroutine was when Ref.Stop cleared running
    retAfterStop, \* history: a method returned to the body with running false
    stopReturned, \* history: some Ref.Stop call has returned
    deqAfterStopRet, \* history: a message was dequeued after a Ref.Stop returned
    sendPanicked, \* history: a Send call panicked
    stopPanicked, \* history: a Ref.Stop call panicked
    sendsAtClose, \* history: number of Send calls in progress when receiver was closed
    cleanups,     \* history: number of times the deferred cleanup closed receiver
    nextId,       \* start.go:32
    nextIdLock,   \* start.go:33: "free" or "held"
    startPc,      \* position of each caller of Start
    id,           \* Embeddable.id of the coroutine of each caller, 0 before it is set
    name          \* Embeddable.name of the coroutine of each caller, "" before it is set

actorVars == <<pc, curOp, wokenBy, failure, ncalls>>
procVars == <<ext, nsent>>
histVars == <<delivered, stopPc, retAfterStop, stopReturned, deqAfterStopRet,
              sendPanicked, stopPanicked, sendsAtClose, cleanups>>
startVars == <<nextId, nextIdLock, startPc, id, name>>
coVars == <<running, mailbox, mailboxLock, closed, timer, actorVars, procVars, histVars>>
vars == <<coVars, startVars>>

\* time.NewTimer(0): the timer is armed, nothing has been sent on its channel.
NewTimer == [armed |-> TRUE, flight |-> "none", chan |-> "none"]

\* The Embeddable made by StartFuncName/StartName (start.go:41-47, 89-94),
\* its goroutine launched and about to run the body.
CoInit ==
    /\ running = TRUE
    /\ mailbox = <<>>
    /\ mailboxLock = "free"
    /\ closed = FALSE
    /\ timer = [t \in Timers |-> NewTimer]
    /\ pc = "body"
    /\ curOp = "none"
    /\ wokenBy = "none"
    /\ failure = "none"
    /\ ncalls = 0
    /\ ext = [x \in ExtPcs |-> 0]
    /\ nsent = 0
    /\ delivered = <<>>
    /\ stopPc = "none"
    /\ retAfterStop = FALSE
    /\ stopReturned = FALSE
    /\ deqAfterStopRet = FALSE
    /\ sendPanicked = FALSE
    /\ stopPanicked = FALSE
    /\ sendsAtClose = 0
    /\ cleanups = 0

\* State after the first call of a Start function returned: the coroutine
\* has the id 1 (start.go:32, 49-52) and a name, and nobody else has called
\* Start.
Init ==
    /\ CoInit
    /\ nextId = 2
    /\ nextIdLock = "free"
    /\ startPc = [s \in Starters |-> IF s = 1 THEN "returned" ELSE "idle"]
    /\ id = [s \in Starters |-> IF s = 1 THEN 1 ELSE 0]
    /\ name = [s \in Starters |-> IF s = 1 THEN "a" ELSE ""]

\* A panic that leaves the coroutine's goroutine ends the program
\* (start.go:69, start.go:116): no goroutine takes a step after it.
ProgramAlive == pc # "crashed"

----------------------------------------------------------------------------
(* time.Timer *)

\* The runtime's timer goroutine finds the timer due: it removes it from the
\* timer heap and is about to send on the timer's channel. That goroutine
\* runs one timer function at a time.
TimerExpire(t) ==
    /\ ProgramAlive
    /\ timer[t].armed
    /\ timer[t].flight = "none"
    /\ timer' = [timer EXCEPT ![t].armed = FALSE, ![t].flight = "cur"]
    /\ UNCHANGED <<running, mailbox, mailboxLock, closed, actorVars, procVars, histVars, startVars>>

\* pc at which the coroutine is blocked receiving from the channel of timer t.
ParkedOn(t) == IF t = "wait" THEN "p_wait" ELSE "rf_wait"

\* pc of the coroutine after a wait of that kind ended.
WokenPc(p) ==
    CASE p = "p_wait" -> "p_woken"
      [] p = "rf_wait" -> "rf_woken"
      [] p = "recv_wait" -> "recv_woken"

\* sendTime: the non-blocking send on the timer's channel (capacity 1). A
\* goroutine blocked receiving from the channel takes the value directly.
TimerDeliver(t) ==
    /\ ProgramAlive
    /\ timer[t].flight # "none"
    /\ IF pc = ParkedOn(t)
       THEN /\ pc' = WokenPc(pc)
            /\ wokenBy' = "timer_" \o timer[t].flight
            /\ timer' = [timer EXCEPT ![t].flight = "none"]
       ELSE /\ timer' = [timer EXCEPT ![t].flight = "none",
                                      ![t].chan = IF timer[t].chan = "none"
                                                  THEN timer[t].flight
                                                  ELSE timer[t].chan]
            /\ UNCHANGED <<pc, wokenBy>>
    /\ UNCHANGED <<running, mailbox, mailboxLock, closed, curOp, failure, ncalls,
                   procVars, histVars, startVars>>

\* Timer.Stop: TRUE iff the call stopped the timer (it was still armed).
TimerStopResult(t) == timer[t].armed

\* What a previous arming sent, or is about to send, on the channel.
Stale(x) == IF x = "none" THEN "none" ELSE "stale"

\* Timer.Reset: arms the timer again. What is in flight or in the channel
\* now belongs to a previous arming.
TimerAfterReset(tm) ==
    [armed |-> TRUE, flight |-> Stale(tm.flight), chan |-> Stale(tm.chan)]

----------------------------------------------------------------------------
(* The coroutine's goroutine *)

\* panic(v): the body's stack is abandoned and the deferred cleanup runs.
Panic(v) ==
    /\ pc' = "cleanup_running"
    /\ failure' = v

\* A method returns to the body; the statement after the call runs next.
ReturnToBody ==
    /\ pc' = "body"
    /\ curOp' = "none"
    /\ wokenBy' = "none"
    /\ retAfterStop' = (retAfterStop \/ ~running)

\* First pc of each method.
EntryPc(op) ==
    CASE op = "Recv" -> "recv_entry"
      [] op = "RecvFor" -> "rf_entry"
      [] op = "RecvFor0" -> "rf_entry"
      [] op = "RecvImmediate" -> "ri_entry"
      [] op = "Pause" -> "p_entry"
      [] op = "Stop" -> "stop_entry"

\* The body (user code) calls one of the methods of Embeddable.
BodyCall ==
    /\ pc = "body"
    /\ ncalls < MaxCalls
    /\ ncalls' = ncalls + 1
    /\ \E op \in OpNames :
        /\ curOp' = op
        /\ pc' = EntryPc(op)
    /\ UNCHANGED <<running, mailbox, mailboxLock, closed, timer, wokenBy, failure,
                   procVars, histVars, startVars>>

\* The body returns normally: the deferred cleanup runs with nothing to recover.
BodyReturn ==
    /\ pc = "body"
    /\ pc' = "cleanup_running"
    /\ UNCHANGED <<running, mailbox, mailboxLock, closed, timer, curOp, wokenBy, failure,
                   ncalls, procVars, histVars, startVars>>

\* Values the body can panic with on its own: a value that is not nil and
\* not a coroutine.Stop, or nil.
BodyPanicValues == {"foreign", "nil"}

\* The body panics with a value of its own.
BodyPanic ==
    /\ pc = "body"
    /\ \E v \in BodyPanicValues : Panic(v)
    /\ UNCHANGED <<running, mailbox, mailboxLock, closed, timer, curOp, wokenBy, ncalls,
                   procVars, histVars, startVars>>

\* `if !e.running { panic(Stop{}) }`, continuing at `next`.
CheckRunning(next) ==
    /\ IF running
       THEN pc' = next /\ UNCHANGED failure
       ELSE Panic("stop")
    /\ UNCHANGED <<running, mailbox, mailboxLock, closed, timer, curOp, wokenBy, ncalls,
                   procVars, histVars, startVars>>

\* r := e.mailbox[0]
MailboxFirst(mb) == Head(mb)

\* e.mailbox = e.mailbox[1:]
MailboxRest(mb) == Tail(mb)

\* `r := e.mailbox[0]; e.mailbox = e.mailbox[1:]; e.mailboxLock.Unlock();
\* return r` on a mailbox that is not empty.
DequeueAndReturn ==
    /\ delivered' = Append(delivered, MailboxFirst(mailbox))
    /\ mailbox' = MailboxRest(mailbox)
    /\ deqAfterStopRet' = (deqAfterStopRet \/ stopReturned)
    /\ ReturnToBody
    /\ UNCHANGED <<running, mailboxLock, closed, timer, failure, ncalls, procVars,
                   stopPc, stopReturned, sendPanicked, stopPanicked, sendsAtClose, cleanups,
                   startVars>>

\* `e.mailboxLock.Unlock(); return nil, false`
ReturnNothing ==
    /\ ReturnToBody
    /\ UNCHANGED <<running, mailbox, mailboxLock, closed, timer, failure, ncalls, procVars,
                   delivered, deqAfterStopRet, stopPc, stopReturned,
                   sendPanicked, stopPanicked, sendsAtClose, cleanups, startVars>>

\* `e.mailboxLock.Unlock()` on the empty mailbox, going on to wait at `next`.
UnlockAndGo(next) ==
    /\ pc' = next
    /\ UNCHANGED <<running, mailbox, mailboxLock, closed, timer, curOp, wokenBy, failure,
                   ncalls, procVars, histVars, startVars>>

(* Recv, embed.go:62-83 *)

\* A Recv that does not look at running on entry.
RecvEntryNoCheck ==
    /\ pc = "recv_entry"
    /\ pc' = "recv_lock"
    /\ UNCHANGED <<running, mailbox, mailboxLock, closed, timer, curOp, wokenBy, failure,
                   ncalls, procVars, histVars, startVars>>

\* embed.go:63-65
RecvEntry ==
    /\ pc = "recv_entry"
    /\ CheckRunning("recv_lock")

\* embed.go:67-69 on an empty mailbox, embed.go:67-68 and 79-82 otherwise:
\* the critical section, which needs the lock to be free.
RecvLock ==
    /\ pc = "recv_lock"
    /\ mailboxLock = "free"
    /\ IF Len(mailbox) = 0
       THEN UnlockAndGo("recv_park")
       ELSE DequeueAndReturn

\* embed.go:70: the goroutine blocks on `<-e.receiver`. The channel is
\* unbuffered and its senders never block, so there is never a sender
\* waiting; it is closed only by this goroutine's own cleanup.
RecvPark ==
    /\ pc = "recv_park"
    /\ pc' = "recv_wait"
    /\ UNCHANGED <<running, mailbox, mailboxLock, closed, timer, curOp, wokenBy, failure,
                   ncalls, procVars, histVars, startVars>>

\* A buggy Recv that does not look at running after the wait.
RecvWokenNoCheck ==
    /\ pc = "recv_woken"
    /\ pc' = "recv_relock"
    /\ UNCHANGED <<running, mailbox, mailboxLock, closed, timer, curOp, wokenBy, failure,
                   ncalls, procVars, histVars, startVars>>

\* embed.go:72-74
RecvWoken ==
    /\ pc = "recv_woken"
    /\ CheckRunning("recv_relock")

\* embed.go:76-82 after the wait. `e.mailbox[0]` on an empty mailbox is a
\* run-time panic (index out of range), raised with mailboxLock held.
RecvRelock ==
    /\ pc = "recv_relock"
    /\ mailboxLock = "free"
    /\ IF Len(mailbox) = 0
       THEN /\ Panic("index")
            /\ mailboxLock' = "actor"
            /\ UNCHANGED <<running, mailbox, closed, timer, curOp, wokenBy, ncalls,
                           procVars, histVars, startVars>>
       ELSE DequeueAndReturn

(* RecvImmediate, embed.go:137-152 *)

\* embed.go:138-140
RecvImmediateEntry ==
    /\ pc = "ri_entry"
    /\ CheckRunning("ri_lock")

\* embed.go:142-151
RecvImmediateLock ==
    /\ pc = "ri_lock"
    /\ mailboxLock = "free"
    /\ IF Len(mailbox) = 0
       THEN ReturnNothing
       ELSE DequeueAndReturn

(* Reuse of a timer, embed.go:44-48 and embed.go:104-112 *)

\* `!timer.Stop()`: Stop disarms the timer; when it reports that it stopped
\* the timer the `&&` is decided and the drain is skipped.
TimerStopStep(t, drain, reset) ==
    /\ timer' = [timer EXCEPT ![t].armed = FALSE]
    /\ pc' = IF TimerStopResult(t) THEN reset ELSE drain
    /\ UNCHANGED <<running, mailbox, mailboxLock, closed, curOp, wokenBy, failure, ncalls,
                   procVars, histVars, startVars>>

\* `len(timer.C) > 0` and, when it holds, `<-timer.C`.
TimerDrainStep(t, next) ==
    /\ timer' = [timer EXCEPT ![t].chan = "none"]
    /\ pc' = next
    /\ UNCHANGED <<running, mailbox, mailboxLock, closed, curOp, wokenBy, failure, ncalls,
                   procVars, histVars, startVars>>

\* `timer.Reset(duration)`
TimerResetStep(t, next) ==
    /\ timer' = [timer EXCEPT ![t] = TimerAfterReset(timer[t])]
    /\ pc' = next
    /\ UNCHANGED <<running, mailbox, mailboxLock, closed, curOp, wokenBy, failure, ncalls,
                   procVars, histVars, startVars>>

\* The goroutine reaches a receive from timer.C: it takes the value the
\* channel holds, or blocks until TimerDeliver hands it one.
TimerReceiveStep(t, woken) ==
    /\ IF timer[t].chan # "none"
       THEN /\ timer' = [timer EXCEPT ![t].chan = "none"]
            /\ wokenBy' = "timer_" \o timer[t].chan
            /\ pc' = woken
       ELSE /\ pc' = ParkedOn(t)
            /\ UNCHANGED <<timer, wokenBy>>
    /\ UNCHANGED <<running, mailbox, mailboxLock, closed, curOp, failure, ncalls,
                   procVars, histVars, startVars>>

(* RecvFor, embed.go:91-130 *)

\* A RecvFor that arms the timer whatever the duration is.
RecvForEntryIgnoresDuration ==
    /\ pc = "rf_entry"
    /\ CheckRunning("rf_lock")

\* embed.go:92-98: with a duration <= 0 the call goes on in RecvImmediate.
RecvForEntry ==
    /\ pc = "rf_entry"
    /\ CheckRunning(IF curOp = "RecvFor0" THEN "ri_entry" ELSE "rf_lock")

\* embed.go:100-102 on an empty mailbox, embed.go:100-101 and 121-129 otherwise
RecvForLock ==
    /\ pc = "rf_lock"
    /\ mailboxLock = "free"
    /\ IF Len(mailbox) = 0
       THEN UnlockAndGo("rf_stop")
       ELSE DequeueAndReturn

\* embed.go:104
RecvForTimerStop ==
    /\ pc = "rf_stop"
    /\ TimerStopStep("receive", "rf_drain", "rf_reset")

\* embed.go:104-106
RecvForDrain ==
    /\ pc = "rf_drain"
    /\ TimerDrainStep("receive", "rf_reset")

\* embed.go:108
RecvForReset ==
    /\ pc = "rf_reset"
    /\ TimerResetStep("receive", "rf_select")

\* embed.go:109-112: no sender ever waits on receiver, so on arrival only
\* the timer's channel can be ready.
RecvForSelect ==
    /\ pc = "rf_select"
    /\ TimerReceiveStep("receive", "rf_woken")

\* embed.go:114-116
RecvForWoken ==
    /\ pc = "rf_woken"
    /\ CheckRunning("rf_relock")

\* embed.go:118-129
RecvForRelock ==
    /\ pc = "rf_relock"
    /\ mailboxLock = "free"
    /\ IF Len(mailbox) = 0
       THEN ReturnNothing
       ELSE DequeueAndReturn

(* Pause, embed.go:33-55 *)

\* embed.go:34-38
PauseEntry ==
    /\ pc = "p_entry"
    /\ CheckRunning("p_stop")

\* embed.go:44
PauseTimerStop ==
    /\ pc = "p_stop"
    /\ TimerStopStep("wait", "p_drain", "p_reset")

\* embed.go:44-46
PauseDrain ==
    /\ pc = "p_drain"
    /\ TimerDrainStep("wait", "p_reset")

\* embed.go:47
PauseReset ==
    /\ pc = "p_reset"
    /\ TimerResetStep("wait", "p_recv")

\* embed.go:48
PauseWait ==
    /\ pc = "p_recv"
    /\ TimerReceiveStep("wait", "p_woken")

\* A buggy Pause that does not look at running after the wait.
PauseWokenNoCheck ==
    /\ pc = "p_woken"
    /\ ReturnToBody
    /\ UNCHANGED <<running, mailbox, mailboxLock, closed, timer, failure, ncalls, procVars,
                   delivered, stopPc, stopReturned, deqAfterStopRet,
                   sendPanicked, stopPanicked, sendsAtClose, cleanups, startVars>>

\* embed.go:52-55
PauseWoken ==
    /\ pc = "p_woken"
    /\ IF running
       THEN ReturnToBody /\ UNCHANGED failure
       ELSE Panic("stop") /\ UNCHANGED <<curOp, wokenBy, retAfterStop>>
    /\ UNCHANGED <<running, mailbox, mailboxLock, closed, timer, ncalls, procVars,
                   delivered, stopPc, stopReturned, deqAfterStopRet,
                   sendPanicked, stopPanicked, sendsAtClose, cleanups, startVars>>

(* Embeddable.Stop, embed.go:156-163 *)

\* A buggy Stop that clears running and returns, leaving the unwinding to
\* the next method the body calls.
SelfStopNoPanic ==
    /\ pc = "stop_entry"
    /\ running' = FALSE
    /\ retAfterStop' = TRUE
    /\ pc' = "body"
    /\ UNCHANGED <<mailbox, mailboxLock, closed, timer, curOp, wokenBy, failure, ncalls,
                   procVars, delivered, stopPc, stopReturned, deqAfterStopRet,
                   sendPanicked, stopPanicked, sendsAtClose, cleanups, startVars>>

\* embed.go:157-162: running is read for the log line only.
SelfStop ==
    /\ pc = "stop_entry"
    /\ running' = FALSE
    /\ Panic("stop")
    /\ UNCHANGED <<mailbox, mailboxLock, closed, timer, curOp, wokenBy, ncalls,
                   procVars, histVars, startVars>>

(* The deferred function of StartFuncName and StartName, start.go:55-72, 102-119 *)

\* A deferred function that sets the flag the wrong way.
CleanupRunningSetsTrue ==
    /\ pc = "cleanup_running"
    /\ running' = TRUE
    /\ pc' = "cleanup_close"
    /\ UNCHANGED <<mailbox, mailboxLock, closed, timer, curOp, wokenBy, failure, ncalls,
                   procVars, histVars, startVars>>

\* start.go:58, start.go:105
CleanupRunning ==
    /\ pc = "cleanup_running"
    /\ running' = FALSE
    /\ pc' = "cleanup_close"
    /\ UNCHANGED <<mailbox, mailboxLock, closed, timer, curOp, wokenBy, failure, ncalls,
                   procVars, histVars, startVars>>

\* start.go:64-71, start.go:111-118: whether the deferred function lets the
\* goroutine end quietly. recover() stops the panic and returns its value,
\* which is nil when there is no panic and when the panic value is nil; the
\* value is raised again unless it is nil or a Stop.
EndsQuietly(f) == f \in {"none", "nil"} \/ f = "stop"

\* A deferred function that recovers and raises the panic again before it
\* releases the resources.
CleanupCloseRepanicFirst ==
    /\ pc = "cleanup_close"
    /\ IF EndsQuietly(failure)
       THEN /\ timer' = [t \in Timers |-> [timer[t] EXCEPT !.armed = FALSE]]
            /\ closed' = TRUE
            /\ cleanups' = cleanups + 1
            /\ sendsAtClose' = ext["send_lock"] + ext["send_notify"]
            /\ pc' = "done"
       ELSE /\ pc' = "crashed"
            /\ UNCHANGED <<timer, closed, cleanups, sendsAtClose>>
    /\ curOp' = "none"
    /\ wokenBy' = "none"
    /\ UNCHANGED <<running, mailbox, mailboxLock, failure, ncalls, procVars,
                   delivered, stopPc, retAfterStop, stopReturned,
                   deqAfterStopRet, sendPanicked, stopPanicked, startVars>>

\* start.go:60-71, start.go:107-118: both timers are stopped, receiver is
\* closed, and a panic other than Stop{} is raised again, which ends the
\* program.
CleanupClose ==
    /\ pc = "cleanup_close"
    /\ timer' = [t \in Timers |-> [timer[t] EXCEPT !.armed = FALSE]]
    /\ closed' = TRUE
    /\ cleanups' = cleanups + 1
    /\ sendsAtClose' = ext["send_lock"] + ext["send_notify"]
    /\ pc' = IF EndsQuietly(failure) THEN "done" ELSE "crashed"
    /\ curOp' = "none"
    /\ wokenBy' = "none"
    /\ UNCHANGED <<running, mailbox, mailboxLock, failure, ncalls, procVars,
                   delivered, stopPc, retAfterStop, stopReturned,
                   deqAfterStopRet, sendPanicked, stopPanicked, startVars>>

----------------------------------------------------------------------------
(* External goroutines holding the Ref *)

\* Number of calls of Ref.Send and Ref.Stop in progress.
InProgress == ext["send_lock"] + ext["send_notify"] + ext["xstop_write"] + ext["xstop_pulse"]

\* One goroutine moves from the place `from` to the place `to`; "out" is
\* outside the calls.
Move(from, to) ==
    [x \in ExtPcs |-> ext[x] + (IF x = to THEN 1 ELSE 0) - (IF x = from THEN 1 ELSE 0)]

\* A Pause that also waited on e.receiver would be woken by a pulse.
ReceiverWaitersWithPause == {"recv_wait", "rf_wait", "p_wait"}

\* pcs at which the coroutine is blocked receiving from e.receiver
\* (embed.go:70, embed.go:110).
ReceiverWaiters == {"recv_wait", "rf_wait"}

\* `select { case r.e.receiver <- true: default: }`: the send succeeds only
\* if the coroutine is blocked receiving from the channel (a send on a
\* closed channel panics instead); otherwise the default case is taken.
Pulse(who) ==
    IF ~closed /\ pc \in ReceiverWaiters
    THEN pc' = WokenPc(pc) /\ wokenBy' = who
    ELSE UNCHANGED <<pc, wokenBy, startVars>>

\* A buggy append that puts the new message in front.
MailboxPrepend(mb, v) == <<v>> \o mb

\* r.e.mailbox = append(r.e.mailbox, v)
MailboxAppend(mb, v) == Append(mb, v)

\* Number of messages appended to the mailbox so far: every Send call made
\* has appended its message, except those still before their critical section.
NumAppended == nsent - ext["send_lock"]

\* A goroutine calls Ref.Send.
SendCall ==
    /\ ProgramAlive
    /\ InProgress < MaxProcs
    /\ nsent < MaxMsgs
    /\ nsent' = nsent + 1
    /\ ext' = Move("out", "send_lock")
    /\ UNCHANGED <<running, mailbox, mailboxLock, closed, timer, actorVars, histVars, startVars>>

\* embed.go:190-192: the critical section of Send, which needs the lock to
\* be free. The message is named by its place in the order of appends.
SendEnqueue ==
    /\ ProgramAlive
    /\ ext["send_lock"] > 0
    /\ mailboxLock = "free"
    /\ mailbox' = MailboxAppend(mailbox, NumAppended + 1)
    /\ ext' = Move("send_lock", "send_notify")
    /\ UNCHANGED <<running, mailboxLock, closed, timer, actorVars, nsent, histVars, startVars>>

\* embed.go:196-199
SendNotify ==
    /\ ProgramAlive
    /\ ext["send_notify"] > 0
    /\ Pulse("send")
    /\ sendPanicked' = (sendPanicked \/ closed)
    /\ ext' = Move("send_notify", "out")
    /\ UNCHANGED <<running, mailbox, mailboxLock, closed, timer, curOp, failure, ncalls,
                   nsent, delivered, stopPc, retAfterStop, stopReturned,
                   deqAfterStopRet, stopPanicked, sendsAtClose, cleanups, startVars>>

\* embed.go:221-225: Ref.Stop reads running; when it is false the call logs
\* and returns.
RefStopCheck ==
    /\ ProgramAlive
    /\ InProgress < MaxProcs
    /\ IF running
       THEN /\ ext' = Move("out", "xstop_write")
            /\ UNCHANGED stopReturned
       ELSE /\ stopReturned' = TRUE
            /\ UNCHANGED ext
    /\ UNCHANGED <<running, mailbox, mailboxLock, closed, timer, actorVars, nsent,
                   delivered, stopPc, retAfterStop,
                   deqAfterStopRet, sendPanicked, stopPanicked, sendsAtClose, cleanups, startVars>>

\* Where the coroutine is, as far as an external Stop is concerned.
StopPlace ==
    CASE pc \in {"recv_wait", "rf_wait", "body"} -> pc
      [] pc \in {"p_entry", "p_stop", "p_drain", "p_reset", "p_recv", "p_wait"} -> "pause"
      [] OTHER -> "other"

\* embed.go:227
RefStopWrite ==
    /\ ProgramAlive
    /\ ext["xstop_write"] > 0
    /\ running' = FALSE
    /\ stopPc' = IF running THEN StopPlace ELSE stopPc
    /\ ext' = Move("xstop_write", "xstop_pulse")
    /\ UNCHANGED <<mailbox, mailboxLock, closed, timer, actorVars, nsent,
                   delivered, retAfterStop, stopReturned,
                   deqAfterStopRet, sendPanicked, stopPanicked, sendsAtClose, cleanups, startVars>>

\* embed.go:230-233
RefStopPulse ==
    /\ ProgramAlive
    /\ ext["xstop_pulse"] > 0
    /\ Pulse("stop")
    /\ stopPanicked' = (stopPanicked \/ closed)
    /\ stopReturned' = (stopReturned \/ ~closed)
    /\ ext' = Move("xstop_pulse", "out")
    /\ UNCHANGED <<running, mailbox, mailboxLock, closed, timer, curOp, failure, ncalls,
                   nsent, delivered, stopPc, retAfterStop,
                   deqAfterStopRet, sendPanicked, sendsAtClose, cleanups, startVars>>

----------------------------------------------------------------------------
(* StartFuncName and StartName, start.go:40-52 and start.go:88-99 *)

\* start.go:41-47, start.go:89-94: the caller sets up the Embeddable with
\* the name it was given; the id is still the zero value.
StartNew(s) ==
    /\ startPc[s] = "idle"
    /\ \E n \in Names : name' = [name EXCEPT ![s] = n]
    /\ startPc' = [startPc EXCEPT ![s] = "lock"]
    /\ UNCHANGED <<nextId, nextIdLock, id, coVars>>

\* A Start function that goes on without taking nextIdLock.
StartLockNoMutex(s) ==
    /\ startPc[s] = "lock"
    /\ startPc' = [startPc EXCEPT ![s] = "assign"]
    /\ UNCHANGED <<nextId, nextIdLock, id, name, coVars>>

\* start.go:49, start.go:96: nextIdLock.Lock()
StartLock(s) ==
    /\ startPc[s] = "lock"
    /\ nextIdLock = "free"
    /\ nextIdLock' = "held"
    /\ startPc' = [startPc EXCEPT ![s] = "assign"]
    /\ UNCHANGED <<nextId, id, name, coVars>>

\* start.go:50, start.go:97: next.id = nextId
StartAssignId(s) ==
    /\ startPc[s] = "assign"
    /\ id' = [id EXCEPT ![s] = nextId]
    /\ startPc' = [startPc EXCEPT ![s] = "incr"]
    /\ UNCHANGED <<nextId, nextIdLock, name, coVars>>

\* start.go:51, start.go:98: nextId++
StartIncrement(s) ==
    /\ startPc[s] = "incr"
    /\ nextId' = nextId + 1
    /\ startPc' = [startPc EXCEPT ![s] = "unlock"]
    /\ UNCHANGED <<nextIdLock, id, name, coVars>>

\* start.go:52, start.go:99: nextIdLock.Unlock()
StartUnlock(s) ==
    /\ startPc[s] = "unlock"
    /\ nextIdLock' = "free"
    /\ startPc' = [startPc EXCEPT ![s] = "go"]
    /\ UNCHANGED <<nextId, id, name, coVars>>

\* start.go:54-77, start.go:101-124: the goroutine is launched and the Ref
\* is returned to the caller.
StartReturn(s) ==
    /\ startPc[s] = "go"
    /\ startPc' = [startPc EXCEPT ![s] = "returned"]
    /\ UNCHANGED <<nextId, nextIdLock, id, name, coVars>>

\* Before any call of a Start function (start.go:32-33). The coroutines the
\* callers start do not run in StartSpec.
StartInit ==
    /\ CoInit
    /\ nextId = 1
    /\ nextIdLock = "free"
    /\ startPc = [s \in Starters |-> "idle"]
    /\ id = [s \in Starters |-> 0]
    /\ name = [s \in Starters |-> ""]

StartNext ==
    \E s \in Starters :
        \/ StartNew(s) \/ StartLock(s) \/ StartAssignId(s)
        \/ StartIncrement(s) \/ StartUnlock(s) \/ StartReturn(s)

StartSpec == StartInit /\ [][StartNext]_vars

----------------------------------------------------------------------------

ActorNext ==
    \/ BodyCall \/ BodyReturn \/ BodyPanic
    \/ RecvEntry \/ RecvLock \/ RecvPark \/ RecvWoken \/ RecvRelock
    \/ RecvImmediateEntry \/ RecvImmediateLock
    \/ RecvForEntry \/ RecvForLock \/ RecvForTimerStop \/ RecvForDrain
    \/ RecvForReset \/ RecvForSelect \/ RecvForWoken \/ RecvForRelock
    \/ PauseEntry \/ PauseTimerStop \/ PauseDrain \/ PauseReset \/ PauseWait \/ PauseWoken
    \/ SelfStop
    \/ CleanupRunning \/ CleanupClose

\* Steps inside a Send or a Ref.Stop that was called.
ProcContinue == SendEnqueue \/ SendNotify \/ RefStopWrite \/ RefStopPulse

ProcNext == SendCall \/ RefStopCheck \/ ProcContinue

TimerNext == \E t \in Timers : TimerExpire(t) \/ TimerDeliver(t)

Next == ActorNext \/ ProcNext \/ TimerNext

Spec == Init /\ [][Next]_vars

\* The Go scheduler runs every runnable goroutine eventually, and a timer
\* that is due is fired eventually. Nothing obliges external code to call
\* Send or Stop.
FairSpec ==
    /\ Spec
    /\ WF_vars(ActorNext)
    /\ WF_vars(ProcContinue)
    /\ WF_vars(TimerNext)

----------------------------------------------------------------------------
(* Properties *)

\* The messages in the order in which Send appended them.
Appended == [i \in 1..NumAppended |-> i]

IsPrefix(a, b) ==
    /\ Len(a) <= Len(b)
    /\ \A i \in 1..Len(a) : a[i] = b[i]

\* pcs of the deferred cleanup and of the ended goroutine.
Unwinding == {"cleanup_running", "cleanup_close", "done", "crashed"}

\* No call of Ref.Send or Ref.Stop is in progress.
ExtIdle == InProgress = 0

\* C1: the messages returned to the body are, in order, a prefix of the
\* messages in the order in which they were appended to the mailbox: FIFO
\* delivery, each message at most once, none that was not sent; and what is
\* neither delivered nor in the mailbox does not exist.
C1_FifoDelivery ==
    /\ IsPrefix(delivered, Appended)
    /\ delivered \o mailbox = Appended

\* C1 witness: two messages were sent and both were returned to the body.
C1_Witness == delivered = <<1, 2>> /\ ExtIdle

\* C2: Recv never takes mailbox[0] of an empty mailbox, that is, the
\* coroutine never fails with an index-out-of-range panic.
C2_RecvNeverDequeuesEmpty == failure # "index"

\* C3: a message whose Send has completed, sent to a running coroutine whose
\* body is in Recv, is eventually returned by that Recv (or the coroutine is
\* stopped or ends), also when no later Send occurs.
C3_NoLostWakeup ==
    \A k \in 0..MaxMsgs :
        (curOp = "Recv" /\ running /\ Len(mailbox) > 0 /\ Len(delivered) = k /\ ExtIdle)
            ~> (Len(delivered) > k \/ ~running \/ pc \in Unwinding)

\* C4: after an external Stop has returned while the body is in Recv, the
\* coroutine eventually reaches its terminal state, with no further Send or
\* Stop needed.
C4_StopEndsRecv ==
    (curOp = "Recv" /\ stopReturned) ~> (pc \in {"done", "crashed"})

\* C5: if Ref.Stop clears running while the coroutine is suspended in Recv
\* or RecvFor, the coroutine goes from the wait to the unwinding with
\* Stop{}: it takes no lock, dequeues nothing and returns nothing.
C5_StopWinsAfterWake ==
    stopPc \in {"recv_wait", "rf_wait"} =>
        /\ ~retAfterStop
        /\ pc \in {"recv_wait", "rf_wait", "recv_woken", "rf_woken",
                   "cleanup_running", "cleanup_close", "done"}
        /\ pc \in Unwinding => failure = "stop"

\* C5 witness: stopped while suspended in Recv, woken by the notify of a
\* Send with the message in the mailbox, and unwinding.
C5_Witness ==
    /\ stopPc = "recv_wait"
    /\ wokenBy = "send"
    /\ Len(mailbox) > 0
    /\ pc = "cleanup_running"

\* C6: once a Ref.Stop call has returned, no message is dequeued.
C6_NoDequeueAfterStop == ~deqAfterStopRet

\* C7: if Ref.Stop clears running between the entry into Pause and the end
\* of its wait, Pause does not return to the body: the coroutine unwinds.
C7_StopDuringPause ==
    stopPc = "pause" =>
        /\ ~retAfterStop
        /\ pc \in {"p_entry", "p_stop", "p_drain", "p_reset", "p_recv", "p_wait", "p_woken",
                   "cleanup_running", "cleanup_close", "done"}
        /\ pc \in Unwinding => failure = "stop"

\* C7 witness: stopped inside Pause, the wait ended by the timer, unwinding.
C7_Witness ==
    /\ stopPc = "pause"
    /\ wokenBy = "timer_cur"
    /\ pc = "cleanup_running"

\* C8 as claimed: the pulse of a Ref.Stop ends the wait of a coroutine
\* suspended in Pause.
C8_PulseEndsPauseWait ==
    [][(pc = "p_wait" /\ ext'["xstop_pulse"] < ext["xstop_pulse"]) => pc' # "p_wait"]_vars

\* C8 as amended: the wait of Pause ends only by a value sent on the
\* channel of waitTimer; a pulse of Ref.Stop or Send leaves the coroutine
\* suspended, whatever running is.
C8_PauseWaitEndsByTimerOnly ==
    [][(pc = "p_wait" /\ pc' # "p_wait") =>
          /\ pc' = "p_woken"
          /\ timer["wait"].flight # "none"
          /\ timer'["wait"].flight = "none"
          /\ wokenBy' = "timer_" \o timer["wait"].flight
          /\ ext' = ext]_vars

\* C8 witness: a Ref.Stop has cleared running, pulsed and returned, and the
\* coroutine is still suspended in Pause.
C8_Witness == pc = "p_wait" /\ ~running /\ stopReturned /\ ExtIdle

\* C9: from the call of Embeddable.Stop on, the goroutine only clears
\* running and runs the deferred cleanup: the step that leaves the call
\* clears running and panics with Stop{}, whether or not running was
\* still true, and control never comes back to the body.
C9_SelfStopUnwinds ==
    [][curOp = "Stop" =>
          /\ pc' \in {"stop_entry", "cleanup_running", "cleanup_close", "done"}
          /\ pc' # "stop_entry" => (~running' /\ failure' = "stop")
          /\ delivered' = delivered]_vars

\* C9 witness: Ref.Stop cleared running while the body was computing, the
\* body then called Stop, and the coroutine is unwinding.
C9_Witness == curOp = "Stop" /\ stopPc = "body" /\ pc = "cleanup_running"

\* C10: a Send called on a coroutine that has ended (its cleanup has closed
\* receiver) does not fail.
C10_SendAfterEndCompletes == sendsAtClose = 0 => ~sendPanicked


\* C11: the goroutine ends quietly exactly when the body returned or was
\* unwound by Stop{}; when the body panicked with anything else the panic is
\* raised again after the cleanup.
C11_OnlyStopSuppressed ==
    /\ pc = "done" => failure \in {"none", "stop"}
    /\ pc = "crashed" => failure \notin {"none", "stop"}

\* C12: the cleanup has run exactly once when the goroutine has ended,
\* however the body exited, and not before: running is false, both timers are
\* stopped and receiver was closed once, before any panic left the goroutine.
C12_CleanupExactlyOnce ==
    /\ cleanups <= 1
    /\ closed <=> cleanups = 1
    /\ pc \in {"done", "crashed"} <=> cleanups = 1
    /\ cleanups = 1 => (~running /\ \A t \in Timers : ~timer[t].armed)

\* C12 witness: the body panicked with a value of its own, the cleanup ran
\* and the panic left the goroutine.
C12_Witness == pc = "crashed" /\ failure = "foreign" /\ cleanups = 1 /\ closed

ImmediatePcs == {"rf_entry", "ri_entry", "ri_lock"}

\* What a call of `op` that does not wait may do in one step: it stays
\* within ImmediatePcs; a check that finds running false unwinds with Stop{}
\* and leaves the mailbox alone; the return takes the head of the mailbox,
\* or nothing, with the mailbox unchanged, when the mailbox is empty.
ImmediateContract(op) ==
    (curOp = op /\ pc \in ImmediatePcs) =>
        /\ pc' \in ImmediatePcs \cup {"body", "cleanup_running"}
        /\ (pc \in {"rf_entry", "ri_entry"} /\ pc' # pc) =>
               IF running
               THEN pc' \in ImmediatePcs /\ failure' = failure
               ELSE pc' = "cleanup_running" /\ failure' = "stop"
        /\ pc' = "cleanup_running" => delivered' = delivered
        /\ pc' = "body" =>
               IF Len(mailbox) = 0
               THEN mailbox' = mailbox /\ delivered' = delivered
               ELSE /\ delivered' = Append(delivered, Head(mailbox))
                    /\ mailbox' = Tail(mailbox)

\* C14: RecvFor with a duration <= 0 and RecvImmediate meet the same
\* contract: neither waits nor arms a timer, both unwind when running is
\* false, both return the head of the mailbox or, on an empty mailbox,
\* nothing with the mailbox unchanged.
C14_RecvForZeroIsRecvImmediate ==
    [][ImmediateContract("RecvFor0") /\ ImmediateContract("RecvImmediate")]_vars

\* C14 witness: RecvFor with a duration <= 0 has passed both checks of
\* running and is about to return nothing from an empty mailbox.
C14_Witness ==
    curOp = "RecvFor0" /\ pc = "ri_lock" /\ Len(mailbox) = 0 /\ mailboxLock = "free"

\* C15: RecvFor with a positive duration returns nothing only after a value
\* of its timer ended the wait, never because receiver was pulsed while the
\* mailbox is empty. (Which arming the value belongs to is the subject of
\* C17.)
C15_TimeoutOnlyAfterExpiry ==
    [][(pc = "rf_relock" /\ pc' = "body" /\ delivered' = delivered)
           => wokenBy \in {"timer_cur", "timer_stale"}]_vars

\* C17: no expiry of an earlier arming of a timer is pending or still to be
\* delivered once the timer was armed again, and no wait is ended by one.
C17_NoStaleExpiry ==
    /\ \A t \in Timers : timer[t].flight # "stale" /\ timer[t].chan # "stale"
    /\ wokenBy # "timer_stale"

\* First pcs of the methods of Embeddable, where running is read on entry.
EntryPcs == {EntryPc(op) : op \in OpNames}

\* pcs at which the coroutine is blocked on receiver or on a timer's channel.
WaitPcs == {"recv_wait", "rf_wait", "p_wait"}

\* C18: a Ref.Stop that clears running while the body is computing changes
\* nothing else of the coroutine and does not move it; after it the body
\* runs on until it calls a method, that method unwinds with Stop{} on
\* entry, and nothing is returned to the body or taken from the mailbox any
\* more, also when the mailbox is not empty.
C18_StopAtCheckpointOnly ==
    [][/\ (stopPc = "none" /\ stopPc' = "body") =>
              /\ ~running'
              /\ <<mailbox, mailboxLock, closed, timer, actorVars, delivered>>' =
                     <<mailbox, mailboxLock, closed, timer, actorVars, delivered>>
       /\ stopPc = "body" =>
              /\ pc' \in {"body"} \cup EntryPcs \cup Unwinding
              /\ (pc \in EntryPcs /\ pc' # pc) =>
                     (pc' = "cleanup_running" /\ failure' = "stop")
              /\ delivered' = delivered
              /\ ~retAfterStop'
              /\ Len(mailbox') >= Len(mailbox)]_vars

\* C18 witness: running was cleared while the body was computing; the body
\* then called Recv with a message in the mailbox, and Recv unwound on entry
\* and left the message where it was.
C18_Witness ==
    /\ stopPc = "body"
    /\ curOp = "Recv"
    /\ pc = "cleanup_running"
    /\ failure = "stop"
    /\ Len(mailbox) > 0

\* C19: the coroutine does not hold mailboxLock while it is blocked on
\* receiver or on a timer, nor once it has unwound, so the critical section
\* of Send is never kept waiting by it.
C19_LockFreeWhenSuspendedOrUnwound ==
    pc \in WaitPcs \cup Unwinding => mailboxLock = "free"

\* C20: Ref.Stop never fails: it never sends on receiver after the cleanup
\* closed it.
C20_StopNeverPulsesClosed == ~stopPanicked

\* Callers of Start whose coroutine has been given its id.
Allocated == {s \in Starters : id[s] # 0}

====
